---- MODULE Spec2Model ----
(***************************************************************************)
(* A model of oslo/transformers/tasks/data_bert_pretraining.py:            *)
(*   ProcessorForBertPretraining     the stateful chunking processor       *)
(*   DataCollatorForBertPretraining  example building, masking and         *)
(*                                   sequence-parallel sharding            *)
(* The tokenizer, the whole-word-mask routine and torch are libraries; the *)
(* model gives what the calls made here return.                            *)
(***************************************************************************)
EXTENDS Integers, Sequences, FiniteSets, TLC

(* ------------------------------ bounds --------------------------------- *)
\* Largest max_length a processor is constructed with.
MaxMaxLength == 9
\* Most ids (token ids and separators) fed to one processor over its life.
MaxFed == 7
\* Most texts in one dataset batch, and most token ids of one text.
MaxBatch == 2
MaxTextLen == 6
\* Most chunk ids in the list of examples given to one call of the collator.
MaxBatchTokens == 6
\* Largest sequence-parallel world size.
MaxWorld == 3

(* --------------------------- tokenizer ids ----------------------------- *)
\* Ordinary token ids the tokenizer returns for text.  The code never
\* compares or inspects an id, so two distinct values are enough to tell a
\* lost, duplicated or reordered id.
Vocab == {11, 12}
SepTokenId == 102
ClsTokenId == 101
MaskTokenId == 103
PadTokenId == 0
\* The fill values of the sharding stage.
IgnoreIndex == -100
TokenTypeFill == 1
AttentionMaskFill == 0
\* max_length - 3: the slots kept for the special tokens added by the collator.
ReservedSpecialTokens == 3

VARIABLES
    max_length,   \* ProcessorForBertPretraining: the constructor's argument
    chunk_size,   \* self._chunk_size
    buffer,       \* self._buffer
    has_text,     \* history: the batch of the last call had a "text" column
    returned,     \* dict_of_training_examples["input_ids"] of the last call
    err,          \* how the last call of the processor ended
    fed,          \* history: every id appended to the buffer, in order
    emitted,      \* history: every chunk returned so far, in order
    constructed,       \* DataCollatorForBertPretraining.__init__ has returned
    parallel_context,  \* self.parallel_context is not None
    local_rank,        \* self.local_rank
    local_world_size,  \* self.local_world_size
    called,            \* the collator's __call__ has run
    examples,          \* the argument of that call: a list of chunks
    rand,              \* the draws of that call: split_position and reverse per example
    output_examples,   \* what _prepare_wwm_and_sop_from_examples returned
    batch,             \* the batch before the sharding stage
    out,               \* how the call ended and the batch it returned
    shards             \* what the collators of ranks 0..world_size-1 return for batch

procVars == <<max_length, chunk_size, buffer, has_text, returned, err, fed, emitted>>
collVars == <<constructed, parallel_context, local_rank, local_world_size, called,
              examples, rand, output_examples, batch, out, shards>>
vars == <<procVars, collVars>>

(* ------------------------------ helpers -------------------------------- *)
Min(a, b) == IF a < b THEN a ELSE b

RECURSIVE Flatten(_)
Flatten(ss) == IF ss = <<>> THEN <<>> ELSE Head(ss) \o Flatten(Tail(ss))

\* The token-id sequences the tokenizer can return for one text.
Texts(maxlen) == UNION {[1..l -> Vocab] : l \in 0..maxlen}

\* The batches (values of examples["text"], already tokenized) of at most k
\* texts that append at most rem ids, separators included.
RECURSIVE Batches(_, _)
Batches(k, rem) ==
    {<<>>} \cup
    (IF k = 0 \/ rem < 1 THEN {}
     ELSE UNION {{<<t>> \o b : b \in Batches(k - 1, rem - Len(t) - 1)} :
                 t \in Texts(Min(MaxTextLen, rem - 1))})

(* --------------------- ProcessorForBertPretraining --------------------- *)
\* self._buffer of a new processor.  BaseProcessor.__init__ sets it.
EmptyBuffer == <<>>

\* __init__: self._chunk_size = max_length - 3
ChunkSizeOf(ml) == ml - ReservedSpecialTokens

\* input_ids += [self._tokenizer.sep_token_id]
WithSep(input_ids) == input_ids \o <<SepTokenId>>

ChunkIdsShort(buf, cs) == SubSeq(buf, 1, Min(cs - 1, Len(buf)))

\* chunk_ids = self._buffer[: self._chunk_size]
ChunkIds(buf, cs) == SubSeq(buf, 1, Min(cs, Len(buf)))

RemainderSkipsOne(buf, cs) == SubSeq(buf, cs + 2, Len(buf))

\* self._buffer = self._buffer[self._chunk_size :]
Remainder(buf, cs) == SubSeq(buf, cs + 1, Len(buf))

HasMoreThanChunk(buf, cs) == Len(buf) > cs

\* while len(self._buffer) >= self._chunk_size
HasFullChunk(buf, cs) == Len(buf) >= cs

\* The while loop: carve full chunks off the front of the buffer.
RECURSIVE Drain(_, _, _)
Drain(buf, acc, cs) ==
    IF HasFullChunk(buf, cs)
    THEN Drain(Remainder(buf, cs), Append(acc, ChunkIds(buf, cs)), cs)
    ELSE [buffer |-> buf, out |-> acc]

\* The for loop over list_of_input_ids.
RECURSIVE FeedAll(_, _, _, _)
FeedAll(buf, acc, texts, cs) ==
    IF texts = <<>> THEN [buffer |-> buf, out |-> acc]
    ELSE LET d == Drain(buf \o WithSep(Head(texts)), acc, cs)
         IN  FeedAll(d.buffer, d.out, Tail(texts), cs)

BufferCleared(buf) == <<>>

\* The buffer a call leaves when the batch has no "text" column: the assert
\* comes before any statement that touches the buffer.
BufferOnMissingText(buf) == buf

\* __call__ on a batch; hasText says whether the batch has a "text" column.
ProcessorCall(hasText, texts) ==
    /\ Len(fed) + Len(Flatten([i \in 1..Len(texts) |-> WithSep(texts[i])])) <= MaxFed
    /\ has_text' = hasText
    /\ IF ~hasText
       THEN /\ err' = "SchemaError"
            /\ buffer' = BufferOnMissingText(buffer)
            /\ returned' = <<>>
            /\ UNCHANGED <<fed, emitted>>
       ELSE LET r == FeedAll(buffer, <<>>, texts, chunk_size)
            IN  /\ err' = "none"
                /\ buffer' = r.buffer
                /\ returned' = r.out
                /\ fed' = fed \o Flatten([i \in 1..Len(texts) |-> WithSep(texts[i])])
                /\ emitted' = emitted \o r.out
    /\ UNCHANGED <<max_length, chunk_size>>
    /\ UNCHANGED collVars

(* -------------------- DataCollatorForBertPretraining ------------------ *)
Keys == {"input_ids", "token_type_ids", "attention_mask", "labels", "next_sentence_label"}

\* value.dim() of the batch's fields: the sentence-order labels are one per
\* example, every other field is batch_size x seq_length.
Dim(key) == IF key = "next_sentence_label" THEN 1 ELSE 2

NoBatch == [key \in Keys |-> <<>>]

\* start, end = seq_length // 3, seq_length // 3 * 2
SplitStart(seq_length) == seq_length \div 3
SplitEnd(seq_length) == (seq_length \div 3) * 2

\* random.randrange(start, end): the values it can return.  It raises
\* ValueError when the range is empty.
RandRange(start, end) == start..(end - 1)

\* token_a, token_b of the two branches
TokenA(chunk_ids, split_position, reverse) ==
    IF reverse THEN SubSeq(chunk_ids, split_position + 1, Len(chunk_ids))
    ELSE SubSeq(chunk_ids, 1, split_position)

TokenB(chunk_ids, split_position, reverse) ==
    IF reverse THEN SubSeq(chunk_ids, 1, split_position)
    ELSE SubSeq(chunk_ids, split_position + 1, Len(chunk_ids))

\* tokenizer.build_inputs_with_special_tokens of a BERT tokenizer
BuildInputsWithSpecialTokens(token_a, token_b) ==
    <<ClsTokenId>> \o token_a \o <<SepTokenId>> \o token_b \o <<SepTokenId>>

CreateTokenTypeIdsSepInB(token_a, token_b) ==
    [i \in 1..(Len(token_a) + 1) |-> 0] \o [i \in 1..(Len(token_b) + 2) |-> 1]

\* tokenizer.create_token_type_ids_from_sequences of a BERT tokenizer:
\* len(cls + a + sep) * [0] + len(b + sep) * [1]
CreateTokenTypeIds(token_a, token_b) ==
    [i \in 1..(Len(token_a) + 2) |-> 0] \o [i \in 1..(Len(token_b) + 1) |-> 1]

SentenceOrderLabelSwapped(reverse) == IF reverse THEN 0 ELSE 1

\* sentence_order_label = 1 if reverse else 0
SentenceOrderLabel(reverse) == IF reverse THEN 1 ELSE 0

\* One turn of the loop of _prepare_wwm_and_sop_from_examples.  masked is the
\* set of positions of input_ids that self._whole_word_mask selected.
PrepareExample(chunk_ids, split_position, reverse, masked) ==
    LET token_a == TokenA(chunk_ids, split_position, reverse)
        token_b == TokenB(chunk_ids, split_position, reverse)
        input_ids == BuildInputsWithSpecialTokens(token_a, token_b)
    IN  [input_ids |-> input_ids,
         token_type_ids |-> CreateTokenTypeIds(token_a, token_b),
         next_sentence_label |-> SentenceOrderLabel(reverse),
         mask_label |-> [i \in 1..Len(input_ids) |-> IF i \in masked THEN 1 ELSE 0]]

\* Whether random.randrange raises for some example of the list.
SomeRangeEmpty(exs) ==
    \E i \in 1..Len(exs) : SplitStart(Len(exs[i])) >= SplitEnd(Len(exs[i]))

\* tokenizer.pad and torch_mask_tokens (lines 71 to 73).  The examples of the
\* list are of one length and pad_to_multiple_of is None, so pad adds the
\* attention mask and no position.  torch_mask_tokens keeps the original id
\* as the label of a selected position and the ignore index elsewhere, and
\* puts `to` at the selected positions (the mask id; the library may also put
\* a random id or leave the id, which no later step tells apart).
PadAndMask(exs, to) ==
    [input_ids |-> [r \in 1..Len(exs) |->
                      [c \in 1..Len(exs[r].input_ids) |->
                         IF exs[r].mask_label[c] = 1 THEN to ELSE exs[r].input_ids[c]]],
     token_type_ids |-> [r \in 1..Len(exs) |-> exs[r].token_type_ids],
     attention_mask |-> [r \in 1..Len(exs) |-> [c \in 1..Len(exs[r].input_ids) |-> 1]],
     labels |-> [r \in 1..Len(exs) |->
                   [c \in 1..Len(exs[r].input_ids) |->
                      IF exs[r].mask_label[c] = 1 THEN exs[r].input_ids[c] ELSE IgnoreIndex]],
     next_sentence_label |-> [r \in 1..Len(exs) |-> exs[r].next_sentence_label]]

NeverNeedsPadding(seq_length, world_size) == FALSE

\* if seq_length % self.local_world_size != 0
NeedsPadding(seq_length, world_size) == seq_length % world_size # 0

\* required_length = ((seq_length // world_size) + 1) * world_size
RequiredLength(seq_length, world_size) == ((seq_length \div world_size) + 1) * world_size

FillValueNoLabelsBranch(key) ==
    IF key = "token_type_ids" THEN TokenTypeFill
    ELSE IF key = "attention_mask" THEN AttentionMaskFill
    ELSE PadTokenId

\* The fill_value of the four branches on key.
FillValue(key) ==
    IF key = "labels" THEN IgnoreIndex
    ELSE IF key = "token_type_ids" THEN TokenTypeFill
    ELSE IF key = "attention_mask" THEN AttentionMaskFill
    ELSE PadTokenId

\* value = torch.cat([value, pads], axis=1), when padding is needed
PadToWorldSize(key, value, world_size) ==
    LET seq_length == Len(value[1])
    IN  IF NeedsPadding(seq_length, world_size)
        THEN LET difference == RequiredLength(seq_length, world_size) - seq_length
             IN  [r \in 1..Len(value) |-> value[r] \o [i \in 1..difference |-> FillValue(key)]]
        ELSE value

\* torch.Tensor.chunk(chunks, dim=1) on L columns: pieces of ceil(L / chunks)
\* columns, the last one shorter when L is not a multiple, and fewer than
\* `chunks` pieces when they cover L sooner; `chunks` empty pieces when L = 0.
ChunkSplitSize(L, chunks) == (L + chunks - 1) \div chunks

ChunkCount(L, chunks) ==
    IF ChunkSplitSize(L, chunks) = 0 THEN chunks
    ELSE (L + ChunkSplitSize(L, chunks) - 1) \div ChunkSplitSize(L, chunks)

\* The j-th piece (from 1) of value.chunk(chunks, dim=1).
ChunkPiece(value, chunks, j) ==
    LET L == Len(value[1])
        split_size == ChunkSplitSize(L, chunks)
    IN  [r \in 1..Len(value) |->
           SubSeq(value[r], (j - 1) * split_size + 1, Min(j * split_size, L))]

\* tuple[index] of Python on a tuple of n items: a negative index counts from
\* the end, an index outside -n..n-1 raises IndexError.  The place, from 1.
IndexInRange(n, index) == -n <= index /\ index < n
PyIndex(n, index) == IF index >= 0 THEN index + 1 ELSE n + index + 1

\* One turn of the loop over batch.items() for a field of two dimensions.
ShardValue(key, value, world_size, rank) ==
    LET padded == PadToWorldSize(key, value, world_size)
    IN  ChunkPiece(padded, world_size,
                   PyIndex(ChunkCount(Len(padded[1]), world_size), rank))

\* The length of a field's rows when the pieces are taken.
PaddedLength(seq_length, world_size) ==
    IF NeedsPadding(seq_length, world_size) THEN RequiredLength(seq_length, world_size)
    ELSE seq_length

\* How the sharding stage ends: the modulo by a zero world size raises
\* ZeroDivisionError, the index of a missing piece raises IndexError.
ShardError(b, world_size, rank) ==
    IF world_size = 0 THEN "ZeroDivisionError"
    ELSE IF \E key \in Keys :
              /\ Dim(key) >= 2
              /\ ~IndexInRange(ChunkCount(PaddedLength(Len(b[key][1]), world_size),
                                          world_size), rank)
         THEN "IndexError"
         ELSE "none"

\* The else branch of __call__ (lines 78 to 109) for the collator of one rank.
ShardBatch(b, world_size, rank) ==
    LET e == ShardError(b, world_size, rank)
    IN  IF e # "none" THEN [err |-> e, batch |-> NoBatch]
        ELSE [err |-> "none",
              batch |-> [key \in Keys |->
                           IF Dim(key) < 2 THEN b[key]
                           ELSE ShardValue(key, b[key], world_size, rank)]]

\* __init__: the rank and the world size are taken from the parallel context
\* as they come, without a check.  Without a context the two fields are never
\* set and never read; they are shown as 0.
DataCollatorInit(pc, rank, world_size) ==
    /\ ~constructed
    /\ constructed' = TRUE
    /\ parallel_context' = pc
    /\ local_rank' = (IF pc THEN rank ELSE 0)
    /\ local_world_size' = (IF pc THEN world_size ELSE 0)
    /\ UNCHANGED <<called, examples, rand, output_examples, batch, out, shards>>
    /\ UNCHANGED procVars

\* __call__ on a list of chunks.  draws gives split_position and reverse of
\* each example; sel is the position (row, column) the whole-word mask
\* selected, <<0, 0>> for none; to is what torch_mask_tokens put there.
DataCollatorCall(exs, draws, sel, to) ==
    /\ constructed
    /\ ~called
    /\ called' = TRUE
    /\ examples' = exs
    /\ IF SomeRangeEmpty(exs)
       THEN /\ out' = [err |-> "ValueError", batch |-> NoBatch]
            /\ rand' = <<>>
            /\ output_examples' = <<>>
            /\ batch' = NoBatch
            /\ shards' = <<>>
       ELSE /\ rand' = draws
            /\ output_examples' =
                  [i \in 1..Len(exs) |->
                     PrepareExample(exs[i], draws[i].split_position, draws[i].reverse,
                                    IF sel[1] = i THEN {sel[2]} ELSE {})]
            /\ batch' = PadAndMask(output_examples', to)
            /\ out' = (IF ~parallel_context THEN [err |-> "none", batch |-> batch']
                       ELSE ShardBatch(batch', local_world_size, local_rank))
            /\ shards' = (IF parallel_context /\ local_world_size >= 1
                          THEN [r \in 1..local_world_size |->
                                  ShardBatch(batch', local_world_size, r - 1)]
                          ELSE <<>>)
    /\ UNCHANGED <<constructed, parallel_context, local_rank, local_world_size>>
    /\ UNCHANGED procVars

(* ---------------------------- specifications --------------------------- *)
\* A processor as constructed: an empty buffer.  max_length <= 3 gives a
\* chunk size <= 0, with which the while loop never ends on any text, so no
\* call with a text completes; such processors are left out.
InitProcessor ==
    /\ max_length \in {m \in 0..MaxMaxLength : ChunkSizeOf(m) >= 1}
    /\ chunk_size = ChunkSizeOf(max_length)
    /\ buffer = EmptyBuffer
    /\ has_text = TRUE
    /\ returned = <<>>
    /\ err = "none"
    /\ fed = <<>>
    /\ emitted = <<>>

\* No collator yet.
InitCollator ==
    /\ constructed = FALSE
    /\ parallel_context = FALSE
    /\ local_rank = 0
    /\ local_world_size = 0
    /\ called = FALSE
    /\ examples = <<>>
    /\ rand = <<>>
    /\ output_examples = <<>>
    /\ batch = NoBatch
    /\ out = [err |-> "none", batch |-> NoBatch]
    /\ shards = <<>>

Init == InitProcessor /\ InitCollator

NextProcessor ==
    \E hasText \in BOOLEAN :
        \E texts \in (IF hasText THEN Batches(MaxBatch, MaxFed - Len(fed)) ELSE {<<>>}) :
            ProcessorCall(hasText, texts)

\* The lists of examples a collator is called with: one or more chunks as the
\* processor returns them, each of chunk_size ids.
ExampleLists ==
    UNION {[1..k -> [1..chunk_size -> Vocab]] :
           k \in {j \in 1..MaxBatchTokens : j * chunk_size <= MaxBatchTokens}}

\* The draws of one call: a split position of the range and a coin per example.
Draws(exs) ==
    [1..Len(exs) -> [split_position : RandRange(SplitStart(chunk_size), SplitEnd(chunk_size)),
                     reverse : BOOLEAN]]

\* The positions the whole-word mask can select: never a special token.
\* At most one position of the batch is selected.
Selections(exs, draws) ==
    {<<0, 0>>} \cup
    UNION {{<<i, c>> : c \in {x \in 2..(chunk_size + 2) :
                                 x # Len(TokenA(exs[i], draws[i].split_position,
                                                draws[i].reverse)) + 2}} :
           i \in 1..Len(exs)}

NextCollator ==
    \/ /\ ~constructed
       /\ \E pc \in BOOLEAN :
         \E world_size \in (IF pc THEN 0..MaxWorld ELSE {0}) :
           \E rank \in (IF pc THEN (-1)..world_size ELSE {0}) :
              DataCollatorInit(pc, rank, world_size)
    \/ /\ constructed
       /\ ~called
       /\ \E exs \in ExampleLists :
            IF SomeRangeEmpty(exs)
            THEN DataCollatorCall(exs, <<>>, <<0, 0>>, MaskTokenId)
            ELSE \E draws \in Draws(exs) :
                   \E sel \in Selections(exs, draws) :
                     DataCollatorCall(exs, draws, sel, MaskTokenId)

SpecProcessor == Init /\ [][NextProcessor]_vars

SpecCollator == Init /\ [][NextCollator]_vars

(* ------------------- ProcessorForBertPretraining: claims ---------------- *)
\* C1: the chunks emitted so far, in emission order across calls, followed by
\* the leftover buffer are exactly the ids fed so far (every text's token ids
\* followed by one separator id, in input order): nothing lost, duplicated
\* or reordered.
C1_TokenConservation == Flatten(emitted) \o buffer = fed

\* Chunks emitted in more than one call, and a leftover in the buffer.
C1_Witness ==
    /\ Len(emitted) >= 2
    /\ Len(returned) >= 1
    /\ Len(returned) < Len(emitted)
    /\ buffer # <<>>

\* C2: after every completed call the buffer holds strictly fewer than
\* chunk_size ids.
C2_BufferBound == Len(buffer) < chunk_size

\* A call that fed several times chunk_size ids and left a remainder.
C2_Witness ==
    /\ err = "none"
    /\ chunk_size = 2
    /\ Len(returned) >= 3
    /\ Len(buffer) = 1

\* C8: chunk_size = max_length - 3; after T ids fed in total, T div chunk_size
\* chunks have been emitted, each of exactly chunk_size ids, and the buffer
\* holds T mod chunk_size ids.
C8_ChunkCountAndSize ==
    /\ chunk_size = max_length - 3
    /\ Len(emitted) = Len(fed) \div chunk_size
    /\ \A i \in 1..Len(emitted) : Len(emitted[i]) = chunk_size
    /\ Len(buffer) = Len(fed) % chunk_size

\* One call with one text of 2 * chunk_size ids and its separator: two chunks
\* and one id kept (the case max_length 13, 25 ids, at max_length 6, 6 ids).
C8_Witness ==
    /\ max_length = 6
    /\ Len(fed) = 7
    /\ Len(returned) = 2
    /\ Len(emitted) = 2
    /\ Len(buffer) = 1
    /\ \A i \in 1..6 : fed[i] # SepTokenId

\* C10: a call on a batch without a "text" column fails with the schema
\* error (the failed assert), emits no chunk and leaves the buffer as it was.
C10_MissingTextLeavesBuffer ==
    [][~has_text' => /\ err' = "SchemaError"
                      /\ returned' = <<>>
                      /\ emitted' = emitted
                      /\ buffer' = buffer]_vars

\* A failed call on a processor whose buffer held ids.
C10_Witness == ~has_text /\ err = "SchemaError" /\ buffer # <<>>

(* ------------------ DataCollatorForBertPretraining: claims -------------- *)
\* The rank and the world size of a usable sharding configuration.
ValidSharding ==
    /\ parallel_context
    /\ local_world_size >= 1
    /\ local_rank \in 0..(local_world_size - 1)

\* A call that built its batch, made by a collator of a group of >= 1 ranks.
ShardedCall == called /\ batch # NoBatch /\ parallel_context /\ local_world_size >= 1

SeqLength == Len(batch["input_ids"][1])

\* ceil(L / world_size) * world_size
CeilMultiple(L, world_size) == ((L + world_size - 1) \div world_size) * world_size

\* The shards of ranks 0..world_size-1 of one row of a field, in rank order.
ConcatShards(key, row) ==
    Flatten([r \in 1..local_world_size |-> shards[r].batch[key][row]])

\* C3: every field of two dimensions of length L is cut by each rank to
\* ceil(L / world_size) * world_size / world_size columns, the shards of ranks
\* 0..world_size-1 put together in rank order are the field padded on the
\* right to ceil(L / world_size) * world_size columns (the field itself when
\* L is a multiple), fields of one dimension pass whole, and the collator
\* returns the shard of its own rank.
C3_ShardingRoundTrip ==
    ShardedCall =>
      /\ \A r \in 1..local_world_size :
            /\ shards[r].err = "none"
            /\ shards[r].batch["next_sentence_label"] = batch["next_sentence_label"]
      /\ \A key \in {k \in Keys : Dim(k) = 2} :
           \A row \in 1..Len(batch[key]) :
             LET L == Len(batch[key][row])
                 P == CeilMultiple(L, local_world_size)
             IN  /\ Len(shards) = local_world_size
                 /\ \A r \in 1..local_world_size :
                       Len(shards[r].batch[key][row]) = P \div local_world_size
                 /\ Len(ConcatShards(key, row)) = P
                 /\ SubSeq(ConcatShards(key, row), 1, L) = batch[key][row]
                 /\ (L % local_world_size = 0 => ConcatShards(key, row) = batch[key][row])
      /\ (ValidSharding => out = shards[local_rank + 1])

\* Length 7 on three ranks: padded to 9, this rank's shard has 3 columns.
C3_Witness ==
    /\ ShardedCall
    /\ ValidSharding
    /\ local_world_size = 3
    /\ SeqLength = 7
    /\ out.err = "none"
    /\ Len(out.batch["input_ids"][1]) = 3

\* C4: when the length L of a field of two dimensions is no multiple of the
\* world size, every position added on the right holds -100 in labels, 1 in
\* token_type_ids, 0 in attention_mask and the pad id in any other field, and
\* positions 1..L keep their values.
C4_RoleSpecificPadding ==
    ShardedCall =>
      \A key \in {k \in Keys : Dim(k) = 2} :
        \A row \in 1..Len(batch[key]) :
          LET L == Len(batch[key][row])
              whole == ConcatShards(key, row)
          IN  /\ \A c \in 1..L : whole[c] = batch[key][row][c]
              /\ \A c \in (L + 1)..Len(whole) :
                    whole[c] = (CASE key = "labels" -> -100
                                  [] key = "token_type_ids" -> 1
                                  [] key = "attention_mask" -> 0
                                  [] OTHER -> PadTokenId)

\* The last of three ranks on a batch of length 7 holds one original column
\* and the two added ones.
C4_Witness ==
    /\ ShardedCall
    /\ ValidSharding
    /\ local_world_size = 3
    /\ local_rank = 2
    /\ SeqLength = 7
    /\ out.err = "none"
    /\ out.batch["labels"][1] = <<-100, -100, -100>>
    /\ out.batch["token_type_ids"][1] = <<1, 1, 1>>
    /\ out.batch["attention_mask"][1] = <<1, 0, 0>>
    /\ out.batch["input_ids"][1] = <<SepTokenId, PadTokenId, PadTokenId>>

\* C5: the example builder never fails on an empty split range: every
\* example of the list is built, with n div 3 <= split_position < (n div 3) * 2
\* when that range is not empty and a fallback position when it is.
C5_SplitRangeWithFallback ==
    called =>
      /\ out.err # "ValueError"
      /\ Len(output_examples) = Len(examples)
      /\ \A i \in 1..Len(rand) :
            SplitStart(Len(examples[i])) < SplitEnd(Len(examples[i])) =>
               /\ SplitStart(Len(examples[i])) <= rand[i].split_position
               /\ rand[i].split_position < SplitEnd(Len(examples[i]))

\* The positions of token_type_ids that hold 0, when 0s come before 1s.
TypeZeroCount(tt) == Cardinality({c \in 1..Len(tt) : tt[c] = 0})
TypeZeroFirst(tt) == \A c, d \in 1..Len(tt) : c < d => tt[c] <= tt[d]

\* C6 as stated: in both branches the first segment's type covers the begin
\* marker, exactly split_position chunk ids and the separator.
C6_BoundaryAtSplitPosition ==
    \A i \in 1..Len(output_examples) :
       /\ TypeZeroFirst(output_examples[i].token_type_ids)
       /\ TypeZeroCount(output_examples[i].token_type_ids) = rand[i].split_position + 2

\* C6 as amended: the first segment's type covers the begin marker, the ids
\* of segment A and the separator: split_position ids in the branch without
\* reversal, n - split_position ids in the reverse branch; the rest of the
\* n + 3 positions have the second segment's type.
C6_BoundaryAtSegmentA ==
    \A i \in 1..Len(output_examples) :
       LET tt == output_examples[i].token_type_ids
           n == Len(examples[i])
       IN  /\ TypeZeroFirst(tt)
           /\ Len(tt) = n + 3
           /\ Len(tt) = Len(output_examples[i].input_ids)
           /\ \A c \in 1..Len(tt) : tt[c] \in {0, 1}
           /\ TypeZeroCount(tt) = (IF rand[i].reverse THEN n - rand[i].split_position
                                   ELSE rand[i].split_position) + 2

\* A reversed example of 6 ids split at 2: segment A has 4 ids.
C6_Witness ==
    /\ called
    /\ out.err = "none"
    /\ \E i \in 1..Len(output_examples) :
          /\ rand[i].reverse
          /\ Len(examples[i]) = 6
          /\ rand[i].split_position = 2
          /\ TypeZeroCount(output_examples[i].token_type_ids) = 6

\* Segments A and B as they stand in an example's input_ids: between the begin
\* marker and the first separator, and between that separator and the last.
FirstSep(ids) == CHOOSE c \in 1..Len(ids) :
                    /\ ids[c] = SepTokenId
                    /\ \A d \in 1..(c - 1) : ids[d] # SepTokenId
SegmentA(ids) == SubSeq(ids, 2, FirstSep(ids) - 1)
SegmentB(ids) == SubSeq(ids, FirstSep(ids) + 1, Len(ids) - 1)

\* C7: the sentence-order label is 1 exactly in the reverse branch, where
\* segment A is chunk[split_position:] and segment B is chunk[:split_position],
\* and 0 exactly in the other, where A is the prefix and B the suffix; A and B
\* together hold every id of the chunk once.
C7_SentenceOrderLabel ==
    \A i \in 1..Len(output_examples) :
       LET e == output_examples[i]
           chunk == examples[i]
           prefix == SubSeq(chunk, 1, rand[i].split_position)
           suffix == SubSeq(chunk, rand[i].split_position + 1, Len(chunk))
           A == SegmentA(e.input_ids)
           B == SegmentB(e.input_ids)
       IN  /\ e.next_sentence_label \in {0, 1}
           /\ e.next_sentence_label = 1 <=> rand[i].reverse
           /\ e.next_sentence_label = 1 => (A = suffix /\ B = prefix /\ B \o A = chunk)
           /\ e.next_sentence_label = 0 => (A = prefix /\ B = suffix /\ A \o B = chunk)
           /\ e.input_ids[1] = ClsTokenId
           /\ e.input_ids[Len(e.input_ids)] = SepTokenId
           /\ Len(e.input_ids) = Len(chunk) + 3

\* A reversed example whose two segments differ.
C7_Witness ==
    /\ called
    /\ out.err = "none"
    /\ \E i \in 1..Len(output_examples) :
          /\ output_examples[i].next_sentence_label = 1
          /\ Len(examples[i]) = 5
          /\ SegmentA(output_examples[i].input_ids) = <<12, 11, 11, 12>>
          /\ SegmentB(output_examples[i].input_ids) = <<11>>

\* C9: no call of the collator comes to its sharding stage with a world size
\* <= 0 or a rank outside 0..world_size-1: the constructor has rejected such
\* a configuration.
C9_InvalidShardingRejected ==
    (called /\ parallel_context /\ batch # NoBatch) => ValidSharding

====
